---- MODULE Spec2Model ----
(***************************************************************************)
(* Loan lifecycle and interest calculation engine of the microfinance      *)
(* back office: LoanCalculator (app/loan_calculator.py), the Loan model's  *)
(* state machine (app/models.py), the loan views and serializers that      *)
(* drive it (app/loan_views.py, app/loan_serializers.py) and the admin     *)
(* bulk action (app/admin.py).                                             *)
(*                                                                         *)
(* Money is counted in hundredths of a currency unit (the DecimalField     *)
(* columns have decimal_places=2), dates are days since 2023-01-01.        *)
(***************************************************************************)
EXTENDS Integers, Sequences, FiniteSets, TLC

VARIABLES
    today,      \* timezone.now().date()
    loans,      \* the Loan table, a sequence of rows (empty before apply)
    ret,        \* the last call: operation, outcome, the instance it worked on
    paidSum,    \* history: sum of the amounts of the successful repayments
    reqs,       \* the HTTP requests in flight, one slot per worker
    started,    \* history: number of HTTP requests started so far
    ledger      \* the Transaction rows the views have written for the loan

vars == <<today, loans, ret, paidSum, reqs, started, ledger>>

(***************************************************************************)
(* Null values of nullable columns.                                        *)
(***************************************************************************)
NoDate == -1
NoValue == -1
NoUser == "None"
NoReason == "None"

(***************************************************************************)
(* datetime.date: proleptic Gregorian calendar, as day ordinals.           *)
(***************************************************************************)
Epoch == [year |-> 2023, month |-> 1, day |-> 1]

IsLeap(y) == (y % 4 = 0 /\ y % 100 # 0) \/ (y % 400 = 0)

DaysInMonth(y, m) ==
    IF m = 2 THEN (IF IsLeap(y) THEN 29 ELSE 28)
    ELSE IF m \in {4, 6, 9, 11} THEN 30 ELSE 31

DaysInYear(y) == IF IsLeap(y) THEN 366 ELSE 365

RECURSIVE DaysBeforeYear(_)
DaysBeforeYear(y) ==
    IF y <= Epoch.year THEN 0 ELSE DaysBeforeYear(y - 1) + DaysInYear(y - 1)

RECURSIVE DaysBeforeMonth(_, _)
DaysBeforeMonth(y, m) ==
    IF m <= 1 THEN 0 ELSE DaysBeforeMonth(y, m - 1) + DaysInMonth(y, m - 1)

\* date(y, m, d) as an ordinal
MkDate(y, m, d) == DaysBeforeYear(y) + DaysBeforeMonth(y, m) + (d - 1)

RECURSIVE YearOfFrom(_, _)
YearOfFrom(y, n) ==
    IF n < DaysInYear(y) THEN y ELSE YearOfFrom(y + 1, n - DaysInYear(y))

RECURSIVE MonthOfFrom(_, _, _)
MonthOfFrom(y, m, n) ==
    IF n < DaysInMonth(y, m) THEN m ELSE MonthOfFrom(y, m + 1, n - DaysInMonth(y, m))

YearOf(date) == YearOfFrom(Epoch.year, date)

\* the year, month and day attributes of a date
YmdOfMonth(y, m, n) == [year |-> y, month |-> m, day |-> n - DaysBeforeMonth(y, m) + 1]
YmdInYear(y, n) == YmdOfMonth(y, MonthOfFrom(y, 1, n), n)
YmdOfYear(y, date) == YmdInYear(y, date - DaysBeforeYear(y))
Ymd(date) == YmdOfYear(YearOf(date), date)

\* d.replace(year=y, month=m), d given by its attributes: ValueError when
\* the day does not exist in that month
DateReplace(d, y, m) ==
    IF d.day <= DaysInMonth(y, m)
    THEN [raised |-> FALSE, value |-> MkDate(y, m, d.day)]
    ELSE [raised |-> TRUE, value |-> NoDate]

(***************************************************************************)
(* decimal.Decimal values as reduced fractions num/den (den > 0).          *)
(***************************************************************************)
Abs(x) == IF x < 0 THEN -x ELSE x

RECURSIVE Gcd(_, _)
Gcd(a, b) == IF b = 0 THEN a ELSE Gcd(b, a % b)

RatReduced(n, d, g) == [num |-> n \div g, den |-> d \div g]
Rat(n, d) == RatReduced(n, d, Gcd(Abs(n), d))

RatMulReduced(a, b, g1, g2) ==
    Rat((a.num \div g1) * (b.num \div g2), (a.den \div g2) * (b.den \div g1))
RatMul(a, b) == RatMulReduced(a, b, Gcd(Abs(a.num), b.den), Gcd(Abs(b.num), a.den))

RatAdd(a, b) == Rat(a.num * b.den + b.num * a.den, a.den * b.den)

RatDivInt(a, n) == RatMul(a, Rat(1, n))

\* DecimalField.get_db_prep_save: quantize to the column's scale with the
\* decimal context's default rounding, ROUND_HALF_EVEN
RoundHalfEven(q, rem, den) ==
    IF 2 * rem < den THEN q
    ELSE IF 2 * rem > den THEN q + 1
    ELSE IF q % 2 = 0 THEN q ELSE q + 1
Quantize(r) == RoundHalfEven(r.num \div r.den, r.num % r.den, r.den)
\* the same for a column counted in 1/scale of the value's unit
QuantizeScaled(r, scale) == Quantize(RatMul(r, Rat(scale, 1)))

(***************************************************************************)
(* LoanCalculator (app/loan_calculator.py).                                *)
(***************************************************************************)
Frequencies == {"daily", "weekly", "biweekly", "monthly"}

\* the table with the second weekly tier cheaper than the third
INTEREST_RATES_rising ==
    [daily    |-> << [lo |-> 1,   hi |-> 30,  open |-> FALSE, pct |-> 10],
                     [lo |-> 31,  hi |-> 90,  open |-> FALSE, pct |-> 8],
                     [lo |-> 91,  hi |-> 180, open |-> FALSE, pct |-> 7],
                     [lo |-> 181, hi |-> 181, open |-> TRUE,  pct |-> 6] >>,
     weekly   |-> << [lo |-> 1,   hi |-> 12,  open |-> FALSE, pct |-> 9],
                     [lo |-> 13,  hi |-> 26,  open |-> FALSE, pct |-> 5],
                     [lo |-> 27,  hi |-> 52,  open |-> FALSE, pct |-> 6],
                     [lo |-> 53,  hi |-> 53,  open |-> TRUE,  pct |-> 5] >>,
     monthly  |-> << [lo |-> 1,   hi |-> 3,   open |-> FALSE, pct |-> 8],
                     [lo |-> 4,   hi |-> 6,   open |-> FALSE, pct |-> 6],
                     [lo |-> 7,   hi |-> 12,  open |-> FALSE, pct |-> 5],
                     [lo |-> 13,  hi |-> 13,  open |-> TRUE,  pct |-> 4] >>,
     biweekly |-> << [lo |-> 1,   hi |-> 12,  open |-> FALSE, pct |-> 8],
                     [lo |-> 13,  hi |-> 24,  open |-> FALSE, pct |-> 6],
                     [lo |-> 25,  hi |-> 25,  open |-> TRUE,  pct |-> 5] >>]

\* INTEREST_RATES: per frequency the tiers in table order; pct is the monthly
\* rate in percent, open marks an "N+" tier.
INTEREST_RATES ==
    [daily    |-> << [lo |-> 1,   hi |-> 30,  open |-> FALSE, pct |-> 10],
                     [lo |-> 31,  hi |-> 90,  open |-> FALSE, pct |-> 8],
                     [lo |-> 91,  hi |-> 180, open |-> FALSE, pct |-> 7],
                     [lo |-> 181, hi |-> 181, open |-> TRUE,  pct |-> 6] >>,
     weekly   |-> << [lo |-> 1,   hi |-> 12,  open |-> FALSE, pct |-> 9],
                     [lo |-> 13,  hi |-> 26,  open |-> FALSE, pct |-> 7],
                     [lo |-> 27,  hi |-> 52,  open |-> FALSE, pct |-> 6],
                     [lo |-> 53,  hi |-> 53,  open |-> TRUE,  pct |-> 5] >>,
     monthly  |-> << [lo |-> 1,   hi |-> 3,   open |-> FALSE, pct |-> 8],
                     [lo |-> 4,   hi |-> 6,   open |-> FALSE, pct |-> 6],
                     [lo |-> 7,   hi |-> 12,  open |-> FALSE, pct |-> 5],
                     [lo |-> 13,  hi |-> 13,  open |-> TRUE,  pct |-> 4] >>,
     biweekly |-> << [lo |-> 1,   hi |-> 12,  open |-> FALSE, pct |-> 8],
                     [lo |-> 13,  hi |-> 24,  open |-> FALSE, pct |-> 6],
                     [lo |-> 25,  hi |-> 25,  open |-> TRUE,  pct |-> 5] >>]

\* a closed tier that leaves out its upper end
TierMatches_exclusive(tier, duration_value) ==
    IF tier.open THEN duration_value >= tier.lo
    ELSE tier.lo <= duration_value /\ duration_value < tier.hi

TierMatches(tier, duration_value) ==
    IF tier.open THEN duration_value >= tier.lo
    ELSE tier.lo <= duration_value /\ duration_value <= tier.hi

RECURSIVE FindTier(_, _, _)
FindTier(tiers, i, duration_value) ==
    IF i > Len(tiers) THEN tiers[Len(tiers)].pct
    ELSE IF TierMatches(tiers[i], duration_value) THEN tiers[i].pct
    ELSE FindTier(tiers, i + 1, duration_value)

\* get_interest_rate: [raised, value]; value is the monthly rate in percent
get_interest_rate(frequency, duration_value) ==
    IF frequency \notin DOMAIN INTEREST_RATES
    THEN [raised |-> TRUE, value |-> NoValue]
    ELSE [raised |-> FALSE,
          value |-> FindTier(INTEREST_RATES[frequency], 1, duration_value)]

\* convert_to_months: Decimal(d)/Decimal('30'), /Decimal('4.33'), /Decimal('2.17')
convert_to_months(frequency, duration_value) ==
    IF frequency = "daily" THEN Rat(duration_value, 30)
    ELSE IF frequency = "weekly" THEN Rat(duration_value * 100, 433)
    ELSE IF frequency = "biweekly" THEN Rat(duration_value * 100, 217)
    ELSE Rat(duration_value, 1)

\* the monthly branch of calculate_next_payment_date, d the date's attributes
AddOneMonth(d) ==
    IF d.month = 12 THEN DateReplace(d, d.year + 1, 1)
    ELSE DateReplace(d, d.year, d.month + 1)

\* calculate_next_payment_date: [raised, value]
calculate_next_payment_date(current_date, frequency) ==
    IF frequency = "daily" THEN [raised |-> FALSE, value |-> current_date + 1]
    ELSE IF frequency = "weekly" THEN [raised |-> FALSE, value |-> current_date + 7]
    ELSE IF frequency = "biweekly" THEN [raised |-> FALSE, value |-> current_date + 14]
    ELSE IF frequency = "monthly" THEN AddOneMonth(Ymd(current_date))
    ELSE [raised |-> FALSE, value |-> current_date + 30]

\* the try/except with the last day of the month not stepped back to
ReplaceOrMonthEnd_rolling(r, new_year, new_month) ==
    IF ~r.raised THEN r.value
    ELSE IF new_month = 12 THEN MkDate(new_year + 1, 1, 1)
    ELSE MkDate(new_year, new_month + 1, 1)

\* the try/except of calculate_final_payment_date
ReplaceOrMonthEnd(r, new_year, new_month) ==
    IF ~r.raised THEN r.value
    ELSE IF new_month = 12 THEN MkDate(new_year + 1, 1, 1) - 1
    ELSE MkDate(new_year, new_month + 1, 1) - 1

\* the monthly branch of calculate_final_payment_date
AddMonths(d, y0, m0) ==
    IF m0 > 12
    THEN ReplaceOrMonthEnd(DateReplace(d, y0 + 1, m0 - 12), y0 + 1, m0 - 12)
    ELSE ReplaceOrMonthEnd(DateReplace(d, y0, m0), y0, m0)

FinalMonthly(d, duration_value) ==
    AddMonths(d, d.year + (duration_value \div 12), d.month + (duration_value % 12))

\* calculate_final_payment_date
calculate_final_payment_date(start_date, frequency, duration_value) ==
    IF frequency = "daily" THEN start_date + duration_value
    ELSE IF frequency = "weekly" THEN start_date + 7 * duration_value
    ELSE IF frequency = "biweekly" THEN start_date + 7 * (duration_value * 2)
    ELSE IF frequency = "monthly" THEN FinalMonthly(Ymd(start_date), duration_value)
    ELSE start_date + duration_value * 30

\* the dictionary calculate_loan returns, money as fractions of hundredths
LoanDetails(principal_amount, frequency, duration_value, monthly_rate, duration_months, total_interest, total_amount, first, final) ==
    [raised |-> FALSE,
     principal_amount |-> principal_amount,
     monthly_interest_rate |-> monthly_rate,
     annual_interest_rate |-> RatMul(RatMul(monthly_rate, Rat(12, 1)), Rat(100, 1)),
     duration_value |-> duration_value,
     duration_months |-> duration_months,
     repayment_frequency |-> frequency,
     total_interest |-> total_interest,
     total_repayment |-> total_amount,
     installment_amount |-> RatDivInt(total_amount, duration_value),
     number_of_installments |-> duration_value,
     first_payment_date |-> first,
     final_payment_date |-> final,
     outstanding_balance |-> total_amount]

\* calculate_loan from the dates on
CalcDates(principal_amount, frequency, duration_value, start_date, monthly_rate, duration_months, total_interest, first) ==
    IF first.raised THEN [raised |-> TRUE]
    ELSE LoanDetails(principal_amount, frequency, duration_value, monthly_rate,
                     duration_months, total_interest,
                     RatAdd(Rat(principal_amount, 1), total_interest), first.value,
                     calculate_final_payment_date(start_date, frequency, duration_value))

\* calculate_loan from the flat-rate formula on
CalcAmounts(principal_amount, frequency, duration_value, start_date, monthly_rate, duration_months) ==
    CalcDates(principal_amount, frequency, duration_value, start_date, monthly_rate,
              duration_months,
              RatMul(RatMul(Rat(principal_amount, 1), monthly_rate), duration_months),
              calculate_next_payment_date(start_date, frequency))

\* calculate_loan once the rate was looked up
CalcWithRate(principal_amount, frequency, duration_value, start_date, rate) ==
    IF rate.raised THEN [raised |-> TRUE]
    ELSE CalcAmounts(principal_amount, frequency, duration_value, start_date,
                     Rat(rate.value, 100),
                     convert_to_months(frequency, duration_value))

\* calculate_loan without the check of the principal
calculate_loan_any_principal(principal_amount, frequency, duration_value, start_date) ==
    IF duration_value <= 0 THEN [raised |-> TRUE]
    ELSE CalcWithRate(principal_amount, frequency, duration_value, start_date,
                      get_interest_rate(frequency, duration_value))

\* calculate_loan: [raised, ...]; the principal in hundredths
calculate_loan(principal_amount, frequency, duration_value, start_date) ==
    IF principal_amount <= 0 THEN [raised |-> TRUE]
    ELSE IF duration_value <= 0 THEN [raised |-> TRUE]
    ELSE CalcWithRate(principal_amount, frequency, duration_value, start_date,
                      get_interest_rate(frequency, duration_value))

\* Decimal.__sub__, over the least common denominator
RatSubScaled(a, b, g) ==
    Rat(a.num * (b.den \div g) - b.num * (a.den \div g), (a.den \div g) * b.den)
RatSub(a, b) == RatSubScaled(a, b, Gcd(a.den, b.den))

\* max(remaining_balance, Decimal('0'))
RatMax0(r) == IF r.num < 0 THEN Rat(0, 1) ELSE r

\* one entry of the schedule; remaining_balance is the balance after the
\* subtraction of this payment
ScheduleEntry(i, current_date, payment_amount, remaining_balance) ==
    [installment_number |-> i,
     due_date |-> current_date,
     installment_amount |-> payment_amount,
     balance_after_payment |-> RatMax0(remaining_balance),
     status |-> "pending"]

\* the loop of generate_repayment_schedule from installment i on: [raised, value]
RECURSIVE ScheduleFrom(_, _, _, _, _, _, _)
\* the end of one round of the loop: next is what calculate_next_payment_date
\* gave for the date of the entry just appended
ScheduleNext(i, n, frequency, payment_amount, remaining_balance, next, schedule) ==
    IF next.raised THEN [raised |-> TRUE, value |-> <<>>]
    ELSE ScheduleFrom(i + 1, n, frequency, payment_amount, remaining_balance,
                      next.value, schedule)

\* one round of the loop, remaining_balance already reduced by the payment
ScheduleRound(i, n, frequency, payment_amount, remaining_balance, current_date, schedule) ==
    ScheduleNext(i, n, frequency, payment_amount, remaining_balance,
                 calculate_next_payment_date(current_date, frequency),
                 Append(schedule,
                        ScheduleEntry(i, current_date, payment_amount,
                                      remaining_balance)))

ScheduleFrom(i, n, frequency, payment_amount, remaining_balance, current_date, schedule) ==
    IF i > n THEN [raised |-> FALSE, value |-> schedule]
    ELSE ScheduleRound(i, n, frequency, payment_amount,
                       RatSub(remaining_balance, payment_amount), current_date,
                       schedule)

\* generate_repayment_schedule once calculate_loan returned
ScheduleOf(loan_details, frequency, duration_value) ==
    IF loan_details.raised THEN [raised |-> TRUE, value |-> <<>>]
    ELSE ScheduleFrom(1, duration_value, frequency,
                      loan_details.installment_amount,
                      loan_details.total_repayment,
                      loan_details.first_payment_date, <<>>)

\* generate_repayment_schedule: [raised, value]
generate_repayment_schedule(principal_amount, frequency, duration_value, start_date) ==
    ScheduleOf(calculate_loan(principal_amount, frequency, duration_value, start_date),
               frequency, duration_value)

(***************************************************************************)
(* Loan (app/models.py).  A Loan instance is a record; the DecimalField    *)
(* attributes hold the value the column stores (hundredths, the monthly    *)
(* rate in ten-thousandths).  The legacy display copies interest_rate,     *)
(* loan_term and payment_frequency are read by no operation and left out.  *)
(***************************************************************************)
Statuses ==
    {"pending_approval", "approved", "rejected", "disbursed", "active",
     "completed", "overdue"}

\* Loan(**kwargs): the field defaults; id gets its uuid4 default at once
NewLoan(id, loan_number, principal_amount, repayment_frequency, duration_value) ==
    [id |-> id,
     loan_number |-> loan_number,
     status |-> "pending_approval",
     principal_amount |-> principal_amount,
     repayment_frequency |-> repayment_frequency,
     duration_value |-> duration_value,
     monthly_interest_rate |-> NoValue,
     annual_interest_rate |-> NoValue,
     duration_months |-> NoValue,
     total_interest |-> 0,
     total_repayment |-> 0,
     installment_amount |-> 0,
     number_of_installments |-> 0,
     total_amount |-> 0,
     amount_paid |-> 0,
     outstanding_balance |-> 0,
     amount_disbursed |-> 0,
     approved_by |-> NoUser,
     disbursed_by |-> NoUser,
     rejection_reason |-> NoReason,
     approval_date |-> NoDate,
     disbursement_date |-> NoDate,
     first_repayment_date |-> NoDate,
     final_repayment_date |-> NoDate,
     next_repayment_date |-> NoDate,
     completion_date |-> NoDate,
     disbursement_method |-> "None",
     adding |-> TRUE]

\* the assignments of calculate_loan_details
AssignDetails(self, calc_result) ==
    IF calc_result.raised THEN [raised |-> TRUE, obj |-> self]
    ELSE [raised |-> FALSE,
          obj |-> [self EXCEPT
              !.monthly_interest_rate =
                  QuantizeScaled(calc_result.monthly_interest_rate, 10000),
              !.annual_interest_rate =
                  QuantizeScaled(calc_result.annual_interest_rate, 100),
              !.duration_months = QuantizeScaled(calc_result.duration_months, 100),
              !.total_interest = Quantize(calc_result.total_interest),
              !.total_repayment = Quantize(calc_result.total_repayment),
              !.installment_amount = Quantize(calc_result.installment_amount),
              !.number_of_installments = calc_result.number_of_installments,
              !.first_repayment_date = calc_result.first_payment_date,
              !.final_repayment_date = calc_result.final_payment_date,
              !.next_repayment_date = calc_result.first_payment_date]]

\* Loan.calculate_loan_details: [raised, obj]
calculate_loan_details(self, now) ==
    AssignDetails(self,
        calculate_loan(self.principal_amount, self.repayment_frequency,
                       self.duration_value,
                       IF self.disbursement_date # NoDate
                       THEN self.disbursement_date ELSE now))

\* Loan.save after the calculation: the legacy copy, the initial balance of
\* an instance without primary key, super().save()
SaveRow(self) ==
    [raised |-> FALSE,
     obj |-> [self EXCEPT
         !.total_amount = self.total_repayment,
         !.outstanding_balance =
             IF self.id = NoValue THEN self.total_repayment ELSE @,
         !.adding = FALSE]]

SaveCalculated(self, c) ==
    IF c.raised THEN [raised |-> TRUE, obj |-> self] ELSE SaveRow(c.obj)

\* Loan.save calculating the details on every call
save_recalculating(self, now) ==
    SaveCalculated(self, calculate_loan_details(self, now))

\* Loan.save: [raised, obj]; obj is the instance after the call and, when
\* nothing was raised, the row written
save(self, now) ==
    IF self.id = NoValue \/ self.adding
    THEN SaveCalculated(self, calculate_loan_details(self, now))
    ELSE SaveRow(self)

\* The outcome of a model method: ok is its success flag (False also when it
\* raised), saved tells whether self.save() wrote the row, obj is the
\* instance after the call.
Outcome(ok, raised, saved, obj) ==
    [ok |-> ok, raised |-> raised, saved |-> saved, obj |-> obj]

\* ... self.save(); return True, "..."
Saved(s) == Outcome(~s.raised, s.raised, ~s.raised, s.obj)

\* approve without its status guard: what C1 must tell from approve
approve_unguarded(self, approved_by, now) ==
    Saved(save([self EXCEPT !.status = "approved",
                            !.approved_by = approved_by,
                            !.approval_date = now], now))

\* Loan.approve
approve(self, approved_by, now) ==
    IF self.status # "pending_approval" THEN Outcome(FALSE, FALSE, FALSE, self)
    ELSE Saved(save([self EXCEPT !.status = "approved",
                                 !.approved_by = approved_by,
                                 !.approval_date = now], now))

\* reject guarded only against a second rejection: what C3 must tell from
\* reject
reject_unless_rejected(self, rejection_reason, now) ==
    IF self.status = "rejected" THEN Outcome(FALSE, FALSE, FALSE, self)
    ELSE Saved(save([self EXCEPT !.status = "rejected",
                                 !.rejection_reason = rejection_reason], now))

\* reject noting the reason also on a loan it refuses to reject
reject_noting(self, rejection_reason, now) ==
    IF self.status # "pending_approval"
    THEN Outcome(FALSE, FALSE, TRUE,
                 SaveRow([self EXCEPT !.rejection_reason = rejection_reason]).obj)
    ELSE Saved(save([self EXCEPT !.status = "rejected",
                                 !.rejection_reason = rejection_reason], now))

\* Loan.reject
reject(self, rejection_reason, now) ==
    IF self.status # "pending_approval" THEN Outcome(FALSE, FALSE, FALSE, self)
    ELSE Saved(save([self EXCEPT !.status = "rejected",
                                 !.rejection_reason = rejection_reason], now))

\* Loan.disburse after calculate_loan_details
DisburseCalculated(self, c, now) ==
    IF c.raised THEN Outcome(FALSE, TRUE, FALSE, self)
    ELSE Saved(save([c.obj EXCEPT !.outstanding_balance = c.obj.total_repayment], now))

\* disburse keeping the dates calculated at application: what C11 must tell
\* from DisburseMarked
DisburseMarked_kept(self, now) ==
    Saved(save([self EXCEPT !.outstanding_balance = self.total_repayment], now))

\* Loan.disburse after the guard and the first assignments
DisburseMarked(self, now) ==
    DisburseCalculated(self, calculate_loan_details(self, now), now)

\* disburse without the record of the amount handed out
disburse_unrecorded(self, disbursed_by, now) ==
    IF self.status # "approved" THEN Outcome(FALSE, FALSE, FALSE, self)
    ELSE DisburseMarked([self EXCEPT !.status = "active",
                                     !.disbursed_by = disbursed_by,
                                     !.disbursement_date = now], now)

\* Loan.disburse
disburse(self, disbursed_by, now) ==
    IF self.status # "approved" THEN Outcome(FALSE, FALSE, FALSE, self)
    ELSE DisburseMarked([self EXCEPT !.status = "active",
                                     !.disbursed_by = disbursed_by,
                                     !.disbursement_date = now,
                                     !.amount_disbursed = self.principal_amount], now)

\* Decimal('0.01'), the completion tolerance of record_repayment
CompletionEpsilon == 1

\* the completion test with < for <=: what C9 must tell from RepaySettle
RepaySettle_strict(self, now) ==
    IF self.outstanding_balance < CompletionEpsilon
    THEN [self EXCEPT !.outstanding_balance = 0,
                      !.status = "completed",
                      !.completion_date = now]
    ELSE IF self.next_repayment_date # NoDate /\ self.next_repayment_date < now
    THEN [self EXCEPT !.status = "overdue"]
    ELSE [self EXCEPT !.status = "active"]

\* the completion test alone, the status else set to active
RepaySettle_active(self, now) ==
    IF self.outstanding_balance <= CompletionEpsilon
    THEN [self EXCEPT !.outstanding_balance = 0,
                      !.status = "completed",
                      !.completion_date = now]
    ELSE [self EXCEPT !.status = "active"]

\* the completion that leaves the last cent owing and undated: what C27 must
\* tell from RepaySettle
RepaySettle_owing(self, now) ==
    IF self.outstanding_balance <= CompletionEpsilon
    THEN [self EXCEPT !.status = "completed"]
    ELSE IF self.next_repayment_date # NoDate /\ self.next_repayment_date < now
    THEN [self EXCEPT !.status = "overdue"]
    ELSE [self EXCEPT !.status = "active"]

\* record_repayment: "Check if loan is fully paid" / "Check if overdue"
RepaySettle(self, now) ==
    IF self.outstanding_balance <= CompletionEpsilon
    THEN [self EXCEPT !.outstanding_balance = 0,
                      !.status = "completed",
                      !.completion_date = now]
    ELSE IF self.next_repayment_date # NoDate /\ self.next_repayment_date < now
    THEN [self EXCEPT !.status = "overdue"]
    ELSE [self EXCEPT !.status = "active"]

\* record_repayment from "Update next payment date" on; n is what
\* calculate_next_payment_date gave
RepayDated(self, n, now) ==
    IF n.raised THEN Outcome(FALSE, TRUE, FALSE, self)
    ELSE Saved(save(RepaySettle([self EXCEPT !.next_repayment_date = n.value], now),
                    now))

\* record_repayment after "Update payment tracking"
RepayTracked(self, now) ==
    RepayDated(self,
               calculate_next_payment_date(
                   IF self.next_repayment_date # NoDate
                   THEN self.next_repayment_date ELSE now,
                   self.repayment_frequency),
               now)

\* record_repayment without the test against the outstanding balance: what
\* C5 must tell from record_repayment
record_repayment_unbounded(self, amount, now) ==
    IF self.status \notin {"active", "overdue"} THEN Outcome(FALSE, TRUE, FALSE, self)
    ELSE IF amount <= 0 THEN Outcome(FALSE, TRUE, FALSE, self)
    ELSE RepayTracked([self EXCEPT !.amount_paid = @ + amount,
                                   !.outstanding_balance = @ - amount], now)

\* record_repayment accepting an amount of zero: what C8 must tell from
\* record_repayment
record_repayment_zero(self, amount, now) ==
    IF self.status \notin {"active", "overdue"} THEN Outcome(FALSE, TRUE, FALSE, self)
    ELSE IF amount < 0 THEN Outcome(FALSE, TRUE, FALSE, self)
    ELSE IF amount > self.outstanding_balance THEN Outcome(FALSE, TRUE, FALSE, self)
    ELSE RepayTracked([self EXCEPT !.amount_paid = @ + amount,
                                   !.outstanding_balance = @ - amount], now)

\* Loan.record_repayment
record_repayment(self, amount, now) ==
    IF self.status \notin {"active", "overdue"} THEN Outcome(FALSE, TRUE, FALSE, self)
    ELSE IF amount <= 0 THEN Outcome(FALSE, TRUE, FALSE, self)
    ELSE IF amount > self.outstanding_balance THEN Outcome(FALSE, TRUE, FALSE, self)
    ELSE RepayTracked([self EXCEPT !.amount_paid = @ + amount,
                                   !.outstanding_balance = @ - amount], now)

\* mark_as_overdue filtering on the date alone: what C2 must tell from
\* mark_as_overdue
mark_as_overdue_by_date(row, now) ==
    IF row.next_repayment_date # NoDate /\ row.next_repayment_date < now
    THEN [row EXCEPT !.status = "overdue"]
    ELSE row

\* LoanAdmin.mark_as_overdue on a queryset holding the row:
\* filter(status='active', next_repayment_date__lt=today).update(status='overdue')
mark_as_overdue(row, now) ==
    IF row.status = "active" /\ row.next_repayment_date # NoDate
       /\ row.next_repayment_date < now
    THEN [row EXCEPT !.status = "overdue"]
    ELSE row

(***************************************************************************)
(* Bounds and input sets.                                                  *)
(***************************************************************************)
\* days modelled after each of the two anchor days
Window == 1
\* largest duration_value applied for
MaxDuration == 2

\* the days on which something happens: the turn of the year 2023/24 and the
\* end of January 2024 (29 days in the February that follows)
Days ==
    {MkDate(2023, 12, 30) + k : k \in 0..Window}
        \cup {MkDate(2024, 1, 30) + k : k \in 0..Window}

\* LoanApplicationSerializer: principal_amount min_value=Decimal('1000.00')
MinPrincipal == 100000
Principals == {MinPrincipal}
Durations == 1..MaxDuration
Users == {"manager"}
Reasons == {"", "incomplete documents"}

\* amounts offered to record_repayment, valid and invalid ones
RepaymentAmounts(loan) ==
    {-1, 0, loan.installment_amount,
     loan.outstanding_balance - 2, loan.outstanding_balance - 1,
     loan.outstanding_balance, loan.outstanding_balance + 1}

Workers == {1, 2}
NoObj == [id |-> NoValue]
\* a request slot: pc is the position of the view, loan its instance of the
\* row, seen the row as Loan.objects.get returned it
IdleReq == [pc |-> "idle", kind |-> "none", user |-> NoUser, loan |-> NoObj,
            seen |-> NoObj, amount |-> 0, reason |-> NoReason,
            method |-> "None", ok |-> FALSE]

\* a call as ret records it: was is the status of the row before the call
Call(op, was, ok, raised, amount, obj) ==
    [op |-> op, was |-> was, ok |-> ok, raised |-> raised, amount |-> amount,
     obj |-> obj]

(***************************************************************************)
(* The lifecycle of one loan, its operations called one after another,     *)
(* each on a freshly loaded instance.                                      *)
(***************************************************************************)
Init ==
    /\ today = MkDate(2023, 12, 30)
    /\ loans = <<>>
    /\ ret = Call("none", "none", TRUE, FALSE, 0, NoObj)
    /\ paidSum = 0
    /\ reqs = [w \in Workers |-> IdleReq]
    /\ started = 0
    /\ ledger = <<>>

\* time passes
Tick ==
    /\ \E d \in Days : d > today /\ today' = d
    /\ ret' = Call("tick", "none", TRUE, FALSE, 0, NoObj)
    /\ UNCHANGED <<loans, paidSum, reqs, started, ledger>>

\* Loan.objects.create: the row is inserted unless save raised
Created(s) ==
    /\ loans' = IF s.raised THEN loans ELSE Append(loans, s.obj)
    /\ ret' = Call("apply", "none", ~s.raised, s.raised, 0, s.obj)

\* LoanApplicationSerializer.create -> Loan.objects.create -> Loan.save
Apply(principal_amount, repayment_frequency, duration_value) ==
    /\ loans = <<>>
    /\ Created(save(NewLoan(Len(loans) + 1, <<today, Len(loans) + 1>>,
                            principal_amount, repayment_frequency, duration_value),
                    today))
    /\ paidSum' = 0
    /\ UNCHANGED <<today, reqs, started, ledger>>

\* a model method was called on the instance loaded from row 1
Returned(op, amount, out) ==
    /\ loans' = [loans EXCEPT ![1] = IF out.saved THEN out.obj ELSE @]
    /\ ret' = Call(op, loans[1].status, out.ok, out.raised, amount, out.obj)

Approve(approved_by) ==
    /\ loans # <<>>
    /\ Returned("approve", 0, approve(loans[1], approved_by, today))
    /\ UNCHANGED <<today, paidSum, reqs, started, ledger>>

Reject(rejection_reason) ==
    /\ loans # <<>>
    /\ Returned("reject", 0, reject(loans[1], rejection_reason, today))
    /\ UNCHANGED <<today, paidSum, reqs, started, ledger>>

Disburse(disbursed_by) ==
    /\ loans # <<>>
    /\ Returned("disburse", 0, disburse(loans[1], disbursed_by, today))
    /\ UNCHANGED <<today, paidSum, reqs, started, ledger>>

RecordRepayment(amount) ==
    /\ loans # <<>>
    /\ Returned("record_repayment", amount, record_repayment(loans[1], amount, today))
    /\ paidSum' = IF ret'.ok THEN paidSum + amount ELSE paidSum
    /\ UNCHANGED <<today, reqs, started, ledger>>

\* a repayment of any of the amounts on offer
Repay == loans # <<>> /\ \E a \in RepaymentAmounts(loans[1]) : RecordRepayment(a)

MarkAsOverdue ==
    /\ loans # <<>>
    /\ loans' = [loans EXCEPT ![1] = mark_as_overdue(@, today)]
    /\ ret' = Call("mark_as_overdue", loans[1].status, loans'[1] # loans[1], FALSE, 0,
                    loans'[1])
    /\ UNCHANGED <<today, paidSum, reqs, started, ledger>>

Next ==
    \/ Tick
    \/ \E p \in Principals, f \in Frequencies, d \in Durations : Apply(p, f, d)
    \/ \E u \in Users : Approve(u)
    \/ \E r \in Reasons : Reject(r)
    \/ \E u \in Users : Disburse(u)
    \/ Repay
    \/ MarkAsOverdue

Spec == Init /\ [][Next]_vars

(***************************************************************************)
(* The HTTP views on one loan, two requests in flight.  Each request loads *)
(* its own instance of the row, checks it, calls the model method on it,   *)
(* and the method saves the whole row.  Nothing in the views or the model  *)
(* locks the row or opens a transaction.  Notifications are left out.      *)
(***************************************************************************)
\* requests served in one behaviour
MaxRequests == 4
DisbursementMethods == {"cash"}
\* LoanRepaymentSerializer: amount min_value=Decimal('0.01')
MinRepayment == 1

\* amounts posted to the repayment view
ViewAmounts(loan) == {loan.installment_amount, loan.outstanding_balance}

\* the slot of a request that passed the checks of its view
Request(kind, user, loan, amount, reason, method) ==
    [pc |-> "loaded", kind |-> kind, user |-> user, loan |-> loan, seen |-> loan,
     amount |-> amount, reason |-> reason, method |-> method, ok |-> FALSE]

\* the slot of a request its view answered with 400 before calling the model
Refused(r) == [r EXCEPT !.pc = "done"]

\* a request of worker w has loaded the row: refused, or ready to act
Got(w, refused, r) ==
    /\ reqs[w].pc = "idle"
    /\ started < MaxRequests
    /\ started' = started + 1
    /\ reqs' = [reqs EXCEPT ![w] = IF refused THEN Refused(r) ELSE r]
    /\ UNCHANGED <<today, loans, ret, paidSum, ledger>>

\* LoanApprovalView.post up to serializer.is_valid()
ApprovalGet(w, user, action, rejection_reason) ==
    /\ loans # <<>>
    /\ Got(w,
           \/ loans[1].status # "pending_approval"
           \/ (action = "reject" /\ rejection_reason = ""),
           Request(action, user, loans[1], 0,
                   IF action = "reject" THEN rejection_reason ELSE NoReason,
                   "None"))

\* the model method called by worker w returned out; the view goes on to pc
\* when it succeeded
Answered(w, out, pc) ==
    /\ loans' = [loans EXCEPT ![1] = IF out.saved THEN out.obj ELSE @]
    /\ reqs' = [reqs EXCEPT ![w] =
                   [@ EXCEPT !.pc = IF out.ok THEN pc ELSE "done",
                             !.loan = out.obj,
                             !.ok = out.ok]]

\* LoanApprovalView.post: loan.approve(...) / loan.reject(...)
ApprovalAct(w) ==
    /\ reqs[w].pc = "loaded"
    /\ reqs[w].kind \in {"approve", "reject"}
    /\ Answered(w,
                IF reqs[w].kind = "approve"
                THEN approve(reqs[w].loan, reqs[w].user, today)
                ELSE reject(reqs[w].loan, reqs[w].reason, today),
                "done")
    /\ UNCHANGED <<today, ret, paidSum, started, ledger>>

\* LoanDisbursementView.post up to serializer.is_valid()
DisbursementGet(w, user, disbursement_method) ==
    /\ loans # <<>>
    /\ Got(w, loans[1].status # "approved",
           Request("disburse", user, loans[1], 0, NoReason, disbursement_method))

\* LoanDisbursementView.post: loan.disburse(...)
DisbursementDisburse(w) ==
    /\ reqs[w].pc = "loaded"
    /\ reqs[w].kind = "disburse"
    /\ Answered(w, disburse(reqs[w].loan, reqs[w].user, today), "disbursed")
    /\ UNCHANGED <<today, ret, paidSum, started, ledger>>

\* the second save of the disbursement view wrote s.obj
DetailsSaved(w, s) ==
    /\ loans' = [loans EXCEPT ![1] = s.obj]
    /\ reqs' = [reqs EXCEPT ![w] = [@ EXCEPT !.pc = "done", !.loan = s.obj]]

\* LoanDisbursementView.post: "Update disbursement details", loan.save(),
\* Transaction.objects.create
DisbursementSave(w) ==
    /\ reqs[w].pc = "disbursed"
    /\ DetailsSaved(w, save([reqs[w].loan EXCEPT
                                 !.disbursement_method = reqs[w].method], today))
    /\ ledger' = Append(ledger, [transaction_type |-> "loan_disbursement",
                                 amount |-> reqs[w].loan.principal_amount])
    /\ UNCHANGED <<today, ret, paidSum, started>>

\* LoanRepaymentView.post up to serializer.is_valid()
RepaymentGet(w, user, amount) ==
    /\ loans # <<>>
    /\ Got(w,
           \/ loans[1].status \notin {"active", "overdue"}
           \/ amount < MinRepayment
           \/ amount > loans[1].outstanding_balance,
           Request("repayment", user, loans[1], amount, NoReason, "None"))

\* LoanRepaymentView.post: loan.record_repayment(amount) in try/except
\* ValueError, Transaction.objects.create
RepaymentRecord(w) ==
    /\ reqs[w].pc = "loaded"
    /\ reqs[w].kind = "repayment"
    /\ Answered(w, record_repayment(reqs[w].loan, reqs[w].amount, today), "done")
    /\ paidSum' = IF reqs'[w].ok THEN paidSum + reqs[w].amount ELSE paidSum
    /\ ledger' = IF reqs'[w].ok
                 THEN Append(ledger, [transaction_type |-> "loan_repayment",
                                      amount |-> reqs[w].amount])
                 ELSE ledger
    /\ UNCHANGED <<today, ret, started>>

\* the response of a finished view is sent
Respond(w) ==
    /\ reqs[w].pc = "done"
    /\ reqs' = [reqs EXCEPT ![w] = IdleReq]
    /\ UNCHANGED <<today, loans, ret, paidSum, started, ledger>>

\* a repayment request with any of the amounts on offer
RepaymentPost ==
    /\ loans # <<>>
    /\ \E w \in Workers, u \in Users, a \in ViewAmounts(loans[1]) :
           RepaymentGet(w, u, a)

NextViews ==
    \/ \E p \in Principals, f \in Frequencies, d \in Durations : Apply(p, f, d)
    \/ \E w \in Workers, u \in Users, a \in {"approve", "reject"}, r \in Reasons :
           ApprovalGet(w, u, a, r)
    \/ \E w \in Workers : ApprovalAct(w)
    \/ \E w \in Workers, u \in Users, m \in DisbursementMethods :
           DisbursementGet(w, u, m)
    \/ \E w \in Workers : DisbursementDisburse(w)
    \/ \E w \in Workers : DisbursementSave(w)
    \/ RepaymentPost
    \/ \E w \in Workers : RepaymentRecord(w)
    \/ \E w \in Workers : Respond(w)

SpecViews == Init /\ [][NextViews]_vars

(***************************************************************************)
(* LoanCalculator called on its own, as the calculation preview and the    *)
(* schedule view call it.  The functions keep no state, so a behaviour is  *)
(* one call, recorded in ret with its arguments and what it returned or    *)
(* raised.                                                                 *)
(***************************************************************************)
\* largest duration_value looked up in the rate table
MaxRateDuration == 200
\* last day, counted from the epoch, given to the date functions
MaxDay == 730
\* largest number of periods given to calculate_final_payment_date
MaxPeriods == 25
\* longest schedule generated
MaxScheduleLen == 3

\* the four frequencies and one the calculator does not know
CalcFrequencies == Frequencies \cup {"yearly"}
CalcDates0 == 0..MaxDay
\* principals given to calculate_loan, invalid ones among them
CalcPrincipals == {-1, 0, MinPrincipal}
\* durations given to calculate_loan, invalid ones among them
CalcDurations == (0 - 1)..MaxRateDuration

CallGetInterestRate ==
    /\ ret.op = "none"
    /\ \E frequency \in CalcFrequencies, duration_value \in 1..MaxRateDuration :
          ret' = [op |-> "get_interest_rate", frequency |-> frequency,
                  duration_value |-> duration_value,
                  result |-> get_interest_rate(frequency, duration_value)]
    /\ UNCHANGED <<today, loans, paidSum, reqs, started, ledger>>

CallCalculateLoan ==
    /\ ret.op = "none"
    /\ \E principal_amount \in CalcPrincipals, frequency \in CalcFrequencies, duration_value \in CalcDurations, start_date \in Days :
          ret' = [op |-> "calculate_loan", principal_amount |-> principal_amount,
                  frequency |-> frequency, duration_value |-> duration_value,
                  start_date |-> start_date,
                  result |-> calculate_loan(principal_amount, frequency,
                                            duration_value, start_date)]
    /\ UNCHANGED <<today, loans, paidSum, reqs, started, ledger>>

CallNextPaymentDate ==
    /\ ret.op = "none"
    /\ \E current_date \in CalcDates0, frequency \in CalcFrequencies :
          ret' = [op |-> "calculate_next_payment_date",
                  current_date |-> current_date, frequency |-> frequency,
                  result |-> calculate_next_payment_date(current_date, frequency)]
    /\ UNCHANGED <<today, loans, paidSum, reqs, started, ledger>>

CallFinalPaymentDate ==
    /\ ret.op = "none"
    /\ \E start_date \in CalcDates0, frequency \in CalcFrequencies, duration_value \in 1..MaxPeriods :
          ret' = [op |-> "calculate_final_payment_date", start_date |-> start_date,
                  frequency |-> frequency, duration_value |-> duration_value,
                  result |-> [raised |-> FALSE,
                              value |-> calculate_final_payment_date(
                                            start_date, frequency, duration_value)]]
    /\ UNCHANGED <<today, loans, paidSum, reqs, started, ledger>>

CallGenerateSchedule ==
    /\ ret.op = "none"
    /\ \E principal_amount \in Principals, frequency \in Frequencies, duration_value \in 1..MaxScheduleLen, start_date \in CalcDates0 :
          ret' = [op |-> "generate_repayment_schedule",
                  principal_amount |-> principal_amount, frequency |-> frequency,
                  duration_value |-> duration_value, start_date |-> start_date,
                  result |-> generate_repayment_schedule(principal_amount, frequency,
                                                         duration_value, start_date)]
    /\ UNCHANGED <<today, loans, paidSum, reqs, started, ledger>>

NextCalc ==
    \/ CallGetInterestRate
    \/ CallCalculateLoan
    \/ CallNextPaymentDate
    \/ CallFinalPaymentDate
    \/ CallGenerateSchedule

SpecCalc == Init /\ [][NextCalc]_vars

(***************************************************************************)
(* A Loan created from field values that no serializer has validated       *)
(* (Loan.objects.create), next to the calculator called with the same      *)
(* kind of values.                                                         *)
(***************************************************************************)
\* durations given to Loan.objects.create, invalid ones among them
CreateDurations == (0 - 1)..MaxDuration

\* Loan.objects.create: the row is inserted unless save raised
LoanCreated(principal_amount, frequency, duration_value, s) ==
    /\ loans' = IF s.raised THEN loans ELSE Append(loans, s.obj)
    /\ ret' = [op |-> "create", principal_amount |-> principal_amount,
               frequency |-> frequency, duration_value |-> duration_value,
               result |-> [raised |-> s.raised]]

LoanCreate ==
    /\ loans = <<>>
    /\ ret.op \in {"none", "tick"}
    /\ \E principal_amount \in CalcPrincipals, frequency \in CalcFrequencies, duration_value \in CreateDurations :
          LoanCreated(principal_amount, frequency, duration_value,
                      save(NewLoan(1, <<today, 1>>, principal_amount, frequency,
                                   duration_value), today))
    /\ UNCHANGED <<today, paidSum, reqs, started, ledger>>

NextCreate ==
    \/ Tick
    \/ LoanCreate
    \/ CallCalculateLoan

SpecCreate == Init /\ [][NextCreate]_vars

(***************************************************************************)
(* Applications served at the same time: the application view numbers the  *)
(* loan from Loan.objects.count() and then inserts it; a Loan saved        *)
(* without a number gets one from the pre_save signal.  The loan of row 1  *)
(* goes through its lifecycle meanwhile.                                   *)
(***************************************************************************)
\* applications are taken while fewer than this many loans are stored
MaxLoans == 2
\* inputs of the applications
ApplyFrequencies == {"daily"}
ApplyDurations == {1}
\* an instance whose loan_number is empty
NoNumber == <<>>

\* INSERT under unique=True of loan_number without the constraint
Insert_not_unique(rows, obj) == [raised |-> FALSE, rows |-> Append(rows, obj)]

\* INSERT under unique=True of loan_number: [raised, rows]
Insert(rows, obj) ==
    IF \E i \in DOMAIN rows : rows[i].loan_number = obj.loan_number
    THEN [raised |-> TRUE, rows |-> rows]
    ELSE [raised |-> FALSE, rows |-> Append(rows, obj)]

\* the sequence numbers of the stored LON numbers of a year
LonSeqs(rows, year) ==
    {rows[i].loan_number[2] :
        i \in {j \in DOMAIN rows : /\ Len(rows[j].loan_number) = 3
                                   /\ rows[j].loan_number[1] = year}}
\* last_loan's sequence number plus one, or 1
NewSeq(seqs) == IF seqs = {} THEN 1 ELSE 1 + CHOOSE n \in seqs : \A m \in seqs : m <= n

\* generate_loan_number (pre_save): LON, year, sequence number
generate_loan_number(instance, rows, now) ==
    IF instance.loan_number # NoNumber THEN instance
    ELSE [instance EXCEPT
             !.loan_number = <<YearOf(now), NewSeq(LonSeqs(rows, YearOf(now))), "LON">>]

\* a request of worker w holds the instance it is about to insert
Numbered(w, kind, instance) ==
    /\ reqs[w].pc = "idle"
    /\ started < MaxRequests
    /\ Len(loans) < MaxLoans
    /\ started' = started + 1
    /\ reqs' = [reqs EXCEPT ![w] = [IdleReq EXCEPT !.pc = "numbered", !.kind = kind,
                                                   !.loan = instance]]
    /\ UNCHANGED <<today, loans, ret, paidSum, ledger>>

\* LoanApplicationSerializer.create up to Loan.objects.create: LN, date,
\* count + 1
ApplyNumber(w, principal_amount, repayment_frequency, duration_value) ==
    Numbered(w, "apply",
             NewLoan(started + 1, <<today, Len(loans) + 1>>, principal_amount,
                     repayment_frequency, duration_value))

\* Loan.save of an instance without a number, up to the end of pre_save
SavedUnnumbered(w, s) ==
    /\ ~s.raised
    /\ Numbered(w, "signal", generate_loan_number(s.obj, loans, today))

SaveUnnumbered(w, principal_amount, repayment_frequency, duration_value) ==
    SavedUnnumbered(w, save(NewLoan(started + 1, NoNumber, principal_amount,
                                    repayment_frequency, duration_value), today))

\* the INSERT of worker w was answered
InsertAnswered(w, obj, ins) ==
    /\ loans' = ins.rows
    /\ ret' = Call("apply", "none", ~ins.raised, ins.raised, 0, obj)
    /\ reqs' = [reqs EXCEPT ![w] = IdleReq]
    /\ UNCHANGED <<today, paidSum, started, ledger>>

\* the rest of Loan.save for worker w: s is the instance as calculated
InsertCalculated(w, s) ==
    InsertAnswered(w, s.obj,
                   IF s.raised THEN [raised |-> TRUE, rows |-> loans]
                   ELSE Insert(loans, s.obj))

\* Loan.objects.create of the application view, or the INSERT that follows
\* pre_save
ApplyInsert(w) ==
    /\ reqs[w].pc = "numbered"
    /\ InsertCalculated(w, IF reqs[w].kind = "apply" THEN save(reqs[w].loan, today)
                           ELSE [raised |-> FALSE, obj |-> reqs[w].loan])

\* a repayment of one installment on the loan of row 1
RepayInstallment == loans # <<>> /\ RecordRepayment(loans[1].installment_amount)

NextApply ==
    \/ \E w \in Workers, p \in Principals, f \in ApplyFrequencies, d \in ApplyDurations :
           ApplyNumber(w, p, f, d)
    \/ \E w \in Workers, p \in Principals, f \in ApplyFrequencies, d \in ApplyDurations :
           SaveUnnumbered(w, p, f, d)
    \/ \E w \in Workers : ApplyInsert(w)
    \/ \E u \in Users : Approve(u)
    \/ Reject("incomplete documents")
    \/ \E u \in Users : Disburse(u)
    \/ RepayInstallment

SpecApply == Init /\ [][NextApply]_vars

(***************************************************************************)
(* Claims about the lifecycle of one loan (Spec).                          *)
(***************************************************************************)

\* C1: a loan is created with status pending_approval, and its status only
\* ever moves along pending_approval -> approved, pending_approval ->
\* rejected, approved -> active, active <-> overdue and active/overdue ->
\* completed; the declared value 'disbursed' is never assigned.
C1_StatusEdges ==
    [][/\ (loans = <<>> /\ loans' # <<>>) => loans'[1].status = "pending_approval"
       /\ (loans # <<>>) =>
            \/ loans'[1].status = loans[1].status
            \/ <<loans[1].status, loans'[1].status>> \in
                 {<<"pending_approval", "approved">>,
                  <<"pending_approval", "rejected">>,
                  <<"approved", "active">>,
                  <<"active", "overdue">>,
                  <<"overdue", "active">>,
                  <<"active", "completed">>,
                  <<"overdue", "completed">>}
       /\ (loans' # <<>>) => loans'[1].status # "disbursed"]_vars

\* an overdue loan was brought back to active by a repayment
C1_Witness ==
    /\ loans # <<>>
    /\ ret.op = "record_repayment" /\ ret.ok
    /\ ret.was = "overdue" /\ loans[1].status = "active"

\* C2: rejected and completed are terminal: once a loan has one of them, no
\* operation changes its status, amount_paid or outstanding_balance.
C2_Terminal ==
    [][(loans # <<>> /\ loans[1].status \in {"rejected", "completed"}) =>
          /\ loans'[1].status = loans[1].status
          /\ loans'[1].amount_paid = loans[1].amount_paid
          /\ loans'[1].outstanding_balance = loans[1].outstanding_balance]_vars

\* the overdue marking ran over a completed loan whose next payment date has
\* passed
C2_Witness ==
    /\ loans # <<>>
    /\ ret.op = "mark_as_overdue" /\ ret.was = "completed"
    /\ loans[1].next_repayment_date < today
    /\ loans[1].status = "completed"

\* C3: approve and reject called on a loan that is not pending_approval,
\* disburse on one that is not approved, and record_repayment on one that is
\* neither active nor overdue report failure (a False flag, an exception for
\* record_repayment) and leave every field of the instance and of the row
\* unchanged.
C3_GuardsComplete ==
    [][(/\ loans # <<>>
        /\ \/ ret'.op \in {"approve", "reject"} /\ ret'.was # "pending_approval"
           \/ ret'.op = "disburse" /\ ret'.was # "approved"
           \/ ret'.op = "record_repayment" /\ ret'.was \notin {"active", "overdue"})
       => /\ ~ret'.ok
          /\ ret'.raised = (ret'.op = "record_repayment")
          /\ loans' = loans
          /\ ret'.obj = loans[1]]_vars

\* reject was refused on an active loan
C3_Witness ==
    /\ loans # <<>>
    /\ ret.op = "reject" /\ ret.was = "active" /\ ~ret.ok
    /\ loans[1].status = "active"

\* C4: in every state after creation outstanding_balance = total_repayment -
\* amount_paid, and amount_paid is the sum of the repayments accepted.
C4_BalanceIdentity ==
    loans # <<>> =>
        /\ loans[1].outstanding_balance =
               loans[1].total_repayment - loans[1].amount_paid
        /\ loans[1].amount_paid = paidSum

\* C5: 0 <= amount_paid <= total_repayment and outstanding_balance >= 0 in
\* every state.
C5_Bounds ==
    loans # <<>> =>
        /\ 0 <= loans[1].amount_paid
        /\ loans[1].amount_paid <= loans[1].total_repayment
        /\ loans[1].outstanding_balance >= 0

\* the whole of the total repayment has been paid, the last of it by a
\* repayment of exactly the balance
C5_Witness ==
    /\ loans # <<>>
    /\ ret.op = "record_repayment" /\ ret.ok
    /\ loans[1].amount_paid = loans[1].total_repayment
    /\ loans[1].outstanding_balance = 0

\* C8: record_repayment on an active or overdue loan with an amount <= 0 or
\* above the outstanding balance raises and leaves amount_paid,
\* outstanding_balance, status and next_repayment_date unchanged.
C8_RejectedAmount ==
    [][(/\ loans # <<>>
        /\ ret'.op = "record_repayment"
        /\ ret'.was \in {"active", "overdue"}
        /\ (ret'.amount <= 0 \/ ret'.amount > loans[1].outstanding_balance))
       => /\ ret'.raised /\ ~ret'.ok
          /\ loans'[1].amount_paid = loans[1].amount_paid
          /\ loans'[1].outstanding_balance = loans[1].outstanding_balance
          /\ loans'[1].status = loans[1].status
          /\ loans'[1].next_repayment_date = loans[1].next_repayment_date
          /\ ret'.obj = loans[1]]_vars

\* a repayment of one hundredth more than the balance was refused on an
\* overdue loan
C8_Witness ==
    /\ loans # <<>>
    /\ ret.op = "record_repayment" /\ ret.raised
    /\ ret.was = "overdue"
    /\ ret.amount = loans[1].outstanding_balance + 1

\* C9: a successful repayment that leaves at most 0.01 outstanding completes
\* the loan, with outstanding_balance 0 and completion_date set; one that
\* leaves more than 0.01 never completes it.
C9_CompletionEpsilon ==
    [][(loans # <<>> /\ ret'.op = "record_repayment" /\ ret'.ok) =>
          IF loans[1].outstanding_balance - ret'.amount <= 1
          THEN /\ loans'[1].status = "completed"
               /\ loans'[1].outstanding_balance = 0
               /\ loans'[1].completion_date = today
          ELSE /\ loans'[1].status \in {"active", "overdue"}
               /\ loans'[1].outstanding_balance =
                      loans[1].outstanding_balance - ret'.amount
               /\ loans'[1].completion_date = NoDate]_vars

\* a repayment that left exactly 0.01 outstanding completed the loan
C9_Witness ==
    /\ loans # <<>>
    /\ ret.op = "record_repayment" /\ ret.ok
    /\ loans[1].status = "completed"
    /\ loans[1].total_repayment - loans[1].amount_paid = 1
    /\ loans[1].outstanding_balance = 0
    /\ loans[1].completion_date = today

\* C10: after a successful application the loan is pending_approval with
\* amount_paid 0, its calculated fields are those of calculate_loan for the
\* principal, frequency, duration and the time of creation, and
\* outstanding_balance equals total_repayment.
C10_AfterApply ==
    (ret.op = "apply" /\ ret.ok) =>
        /\ loans[1].status = "pending_approval"
        /\ loans[1].amount_paid = 0
        /\ loans[1] = AssignDetails(loans[1],
               calculate_loan(loans[1].principal_amount,
                              loans[1].repayment_frequency,
                              loans[1].duration_value, today)).obj
        /\ loans[1].total_amount = loans[1].total_repayment
        /\ loans[1].outstanding_balance = loans[1].total_repayment

\* C11: after a successful disburse the payment dates are anchored to the
\* day of disbursement, not to the day of application: first_repayment_date
\* is the next payment date after the disbursement date, next_repayment_date
\* equals it, and final_repayment_date is the final payment date counted
\* from the disbursement date.
C11_DisbursementAnchor ==
    [][(loans # <<>> /\ ret'.op = "disburse" /\ ret'.ok) =>
          /\ loans'[1].disbursement_date = today
          /\ loans'[1].first_repayment_date =
                 calculate_next_payment_date(today,
                     loans[1].repayment_frequency).value
          /\ loans'[1].next_repayment_date = loans'[1].first_repayment_date
          /\ loans'[1].final_repayment_date =
                 calculate_final_payment_date(today,
                     loans[1].repayment_frequency, loans[1].duration_value)]_vars

\* a loan was disbursed on a later day than it was applied for, and its first
\* payment date is no longer the one calculated at application
C11_Witness ==
    /\ loans # <<>>
    /\ ret.op = "disburse" /\ ret.ok
    /\ loans[1].loan_number[1] < loans[1].disbursement_date
    /\ loans[1].first_repayment_date #
           calculate_next_payment_date(loans[1].loan_number[1],
               loans[1].repayment_frequency).value


\* C19: while a loan is in repayment its status follows the comparison of
\* next_repayment_date with the current date: in every state with status
\* active or overdue, as repayments are recorded and as the date advances,
\* the status is overdue exactly when next_repayment_date is before today.
C19_OverdueTracksDate ==
    (loans # <<>> /\ loans[1].status \in {"active", "overdue"}) =>
        (loans[1].status = "overdue" <=> loans[1].next_repayment_date < today)

\* C21: every successful record_repayment on an active or overdue loan
\* advances next_repayment_date by exactly one period of the loan's
\* frequency, and when the loan is not completed by it the status becomes
\* overdue if the new next_repayment_date is before today and active
\* otherwise, whatever the status was before.
C21_RepaymentAdvances ==
    [][(loans # <<>> /\ ret'.op = "record_repayment" /\ ret'.ok) =>
          /\ loans[1].status \in {"active", "overdue"}
          /\ loans'[1].next_repayment_date =
                 calculate_next_payment_date(loans[1].next_repayment_date,
                                             loans[1].repayment_frequency).value
          /\ loans'[1].next_repayment_date > loans[1].next_repayment_date
          /\ loans'[1].status # "completed" =>
                 loans'[1].status = IF loans'[1].next_repayment_date < today
                                    THEN "overdue" ELSE "active"]_vars
\* a repayment on an overdue loan whose new due date is not in the past:
\* the loan is active again
C21_Witness ==
    /\ loans # <<>> /\ ret.op = "record_repayment" /\ ret.ok
    /\ ret.was = "overdue" /\ loans[1].status = "active"
    /\ loans[1].next_repayment_date >= today
    /\ loans[1].next_repayment_date > loans[1].first_repayment_date

\* C22: approve, reject, disburse and record_repayment are all-or-nothing:
\* in every execution, one in which the date arithmetic fails included,
\* either all effects of the operation are applied or the loan object is
\* left with status, amount_paid, outstanding_balance and dates exactly as
\* before the call.
C22_AllOrNothing ==
    [][(/\ loans # <<>>
        /\ ret'.op \in {"approve", "reject", "disburse", "record_repayment"}) =>
          \/ ret'.ok /\ loans'[1] = ret'.obj
          \/ /\ ~ret'.ok
             /\ loans'[1] = loans[1]
             /\ ret'.obj.status = loans[1].status
             /\ ret'.obj.amount_paid = loans[1].amount_paid
             /\ ret'.obj.outstanding_balance = loans[1].outstanding_balance
             /\ ret'.obj.approval_date = loans[1].approval_date
             /\ ret'.obj.disbursement_date = loans[1].disbursement_date
             /\ ret'.obj.first_repayment_date = loans[1].first_repayment_date
             /\ ret'.obj.next_repayment_date = loans[1].next_repayment_date
             /\ ret'.obj.final_repayment_date = loans[1].final_repayment_date
             /\ ret'.obj.completion_date = loans[1].completion_date]_vars

C24_EqualInstallments ==
    [][(/\ loans # <<>>
        /\ loans[1].status \in {"active", "overdue"}
        /\ ret'.op = "record_repayment"
        /\ ret'.amount = loans[1].installment_amount
        /\ \E k \in 0..(loans[1].duration_value - 1) :
               loans[1].amount_paid = k * loans[1].installment_amount) =>
          /\ ret'.ok
          /\ loans'[1].amount_paid =
                 loans[1].duration_value * loans[1].installment_amount =>
                 /\ loans'[1].status = "completed"
                 /\ loans'[1].outstanding_balance = 0]_vars

\* C25: rejection_reason is set only by a successful reject, so that a loan
\* whose rejection_reason has been set has status rejected, and approve
\* records approved_by and approval_date only on the step from
\* pending_approval to approved.
C25_ReasonAndApprover ==
    [][/\ loans' # <<>> =>
             (loans'[1].rejection_reason # NoReason => loans'[1].status = "rejected")
       /\ loans # <<>> =>
             /\ loans'[1].rejection_reason # loans[1].rejection_reason =>
                    /\ ret'.op = "reject" /\ ret'.ok
                    /\ loans[1].status = "pending_approval"
                    /\ loans'[1].status = "rejected"
             /\ (\/ loans'[1].approved_by # loans[1].approved_by
                 \/ loans'[1].approval_date # loans[1].approval_date) =>
                    /\ ret'.op = "approve" /\ ret'.ok
                    /\ loans[1].status = "pending_approval"
                    /\ loans'[1].status = "approved"
                    /\ loans'[1].approval_date = today]_vars
\* a reject refused on an approved loan: no reason is noted and the approver
\* stays
C25_Witness ==
    /\ loans # <<>> /\ ret.op = "reject" /\ ~ret.ok
    /\ loans[1].status = "approved"
    /\ loans[1].rejection_reason = NoReason
    /\ loans[1].approved_by # NoUser /\ loans[1].approval_date # NoDate

\* C26: money moves only after disbursement: a loan that is pending_approval,
\* approved or rejected has amount_paid = 0 and amount_disbursed = 0, and a
\* loan that is active, overdue or completed has amount_disbursed =
\* principal_amount with disbursed_by and disbursement_date set.
C26_MoneyAfterDisbursement ==
    loans # <<>> =>
        /\ loans[1].status \in {"pending_approval", "approved", "rejected"} =>
               loans[1].amount_paid = 0 /\ loans[1].amount_disbursed = 0
        /\ loans[1].status \in {"active", "overdue", "completed"} =>
               /\ loans[1].amount_disbursed = loans[1].principal_amount
               /\ loans[1].disbursed_by # NoUser
               /\ loans[1].disbursement_date # NoDate
\* a repayment refused on an approved loan, and a disbursed loan that has
\* been paid on
C26_Witness ==
    /\ loans # <<>> /\ ret.op = "record_repayment"
    /\ \/ ~ret.ok /\ loans[1].status = "approved" /\ ret.amount > 0 /\ loans[1].amount_paid = 0
       \/ ret.ok /\ loans[1].status = "active" /\ loans[1].amount_paid > 0
                 /\ loans[1].amount_disbursed = loans[1].principal_amount

\* C27: status and balance agree: a completed loan has outstanding_balance = 0
\* and its completion_date set, and a loan that is active or overdue owes
\* more than the completion epsilon of 0.01.
C27_StatusAndBalance ==
    loans # <<>> =>
        /\ loans[1].status = "completed" =>
               loans[1].outstanding_balance = 0 /\ loans[1].completion_date # NoDate
        /\ loans[1].status \in {"active", "overdue"} =>
               loans[1].outstanding_balance > CompletionEpsilon
\* a repayment that left 0.02 owing on a loan still in repayment, and one
\* that left 0.01 and completed the loan
C27_Witness ==
    /\ loans # <<>> /\ ret.op = "record_repayment" /\ ret.ok
    /\ \/ /\ loans[1].status \in {"active", "overdue"}
          /\ loans[1].outstanding_balance = CompletionEpsilon + 1
       \/ /\ loans[1].status = "completed"
          /\ ret.amount = loans[1].total_repayment - CompletionEpsilon
          /\ loans[1].amount_paid = ret.amount

\* C30: next_repayment_date stays within the loan term: a disbursed loan
\* that is active or overdue has first_repayment_date <= next_repayment_date
\* <= final_repayment_date, whatever the number and size of the repayments
\* recorded on it.
C30_NextWithinTerm ==
    (loans # <<>> /\ loans[1].status \in {"active", "overdue"}) =>
        /\ loans[1].first_repayment_date <= loans[1].next_repayment_date
        /\ loans[1].next_repayment_date <= loans[1].final_repayment_date

(***************************************************************************)
(* Claims about the calculator called on its own (SpecCalc).               *)
(***************************************************************************)
\* C12: for each of the four frequencies and every duration_value >= 1,
\* get_interest_rate returns the rate of the tier of the published table
\* whose inclusive range holds duration_value, boundaries included, and
\* exactly one tier of INTEREST_RATES matches, so the fallback is not taken.
C12_TierLookup ==
    (ret.op = "get_interest_rate" /\ ret.frequency \in Frequencies) =>
        LET f == ret.frequency
            d == ret.duration_value
            pct == IF f = "daily"
                   THEN (IF d <= 30 THEN 10 ELSE IF d <= 90 THEN 8
                         ELSE IF d <= 180 THEN 7 ELSE 6)
                   ELSE IF f = "weekly"
                   THEN (IF d <= 12 THEN 9 ELSE IF d <= 26 THEN 7
                         ELSE IF d <= 52 THEN 6 ELSE 5)
                   ELSE IF f = "monthly"
                   THEN (IF d <= 3 THEN 8 ELSE IF d <= 6 THEN 6
                         ELSE IF d <= 12 THEN 5 ELSE 4)
                   ELSE (IF d <= 12 THEN 8 ELSE IF d <= 24 THEN 6 ELSE 5)
        IN  /\ ~ret.result.raised
            /\ ret.result.value = pct
            /\ Cardinality({i \in DOMAIN INTEREST_RATES[f] :
                              TierMatches(INTEREST_RATES[f][i], d)}) = 1
\* a lookup at the upper end of a closed tier and one in the open tier
C12_Witness ==
    /\ ret.op = "get_interest_rate"
    /\ \/ ret.frequency = "daily" /\ ret.duration_value = 180 /\ ret.result.value = 7
       \/ ret.frequency = "biweekly" /\ ret.duration_value = 25 /\ ret.result.value = 5

\* C13: for a fixed frequency get_interest_rate is non-increasing in
\* duration_value: no shorter duration gets a lower rate than a longer one.
C13_NonIncreasing ==
    (ret.op = "get_interest_rate" /\ ~ret.result.raised) =>
        \A d1 \in 1..ret.duration_value :
            get_interest_rate(ret.frequency, d1).value >= ret.result.value
\* a lookup in the last tier, below a dearer earlier tier
C13_Witness ==
    /\ ret.op = "get_interest_rate" /\ ret.frequency = "monthly"
    /\ ret.duration_value = 15 /\ ret.result.value = 4
    /\ get_interest_rate("monthly", 2).value = 8

\* C14: for every principal > 0, known frequency and duration_value > 0,
\* calculate_loan returns total_interest = principal x rate x months with
\* months = d/30 (daily), d/4.33 (weekly), d/2.17 (biweekly), d (monthly),
\* total_repayment = principal + total_interest > principal,
\* installment_amount = total_repayment / d, number_of_installments = d,
\* annual_interest_rate = rate x 12 x 100, outstanding_balance =
\* total_repayment.
C14_FlatRate ==
    (/\ ret.op = "calculate_loan"
     /\ ret.principal_amount > 0
     /\ ret.frequency \in Frequencies
     /\ ret.duration_value > 0) =>
        LET p == ret.principal_amount
            d == ret.duration_value
            pct == get_interest_rate(ret.frequency, d).value
            den == IF ret.frequency = "daily" THEN 3000
                   ELSE IF ret.frequency = "weekly" THEN 433
                   ELSE IF ret.frequency = "biweekly" THEN 217
                   ELSE 100
            total == Rat(p * den + p * pct * d, den)
        IN  /\ ~ret.result.raised
            /\ ret.result.total_interest = Rat(p * pct * d, den)
            /\ ret.result.total_repayment = total
            /\ total.num > p * total.den
            /\ ret.result.installment_amount = Rat(total.num, total.den * d)
            /\ ret.result.number_of_installments = d
            /\ ret.result.annual_interest_rate = Rat(pct * 12, 1)
            /\ ret.result.outstanding_balance = total

\* C16: calculate_next_payment_date returns a date for every date and
\* frequency and never raises: daily +1 day, weekly +7, biweekly +14,
\* monthly the next calendar month (December to January of the next year),
\* also when the day of the month (29, 30, 31) does not exist there; an
\* unknown frequency gives +30 days.
C16_NextPaymentDate ==
    (ret.op = "calculate_next_payment_date") =>
        /\ ~ret.result.raised
        /\ ret.frequency = "daily" => ret.result.value = ret.current_date + 1
        /\ ret.frequency = "weekly" => ret.result.value = ret.current_date + 7
        /\ ret.frequency = "biweekly" => ret.result.value = ret.current_date + 14
        /\ ret.frequency = "monthly" =>
              LET was == Ymd(ret.current_date)
                  now == Ymd(ret.result.value)
              IN  /\ now.year * 12 + now.month = was.year * 12 + was.month + 1
                  /\ was.day <= DaysInMonth(now.year, now.month) => now.day = was.day
        /\ ret.frequency \notin Frequencies => ret.result.value = ret.current_date + 30

\* C17: calculate_final_payment_date for monthly returns, for every start
\* date and n >= 1, the date n calendar months later with the same day of
\* the month when that day exists and else the last day of that month (it
\* never raises or rolls into the following month, the year is carried for
\* every start month and n, multiples of 12 included); for daily, weekly
\* and biweekly it returns start_date + n, 7n, 14n days.
C17_FinalPaymentDate ==
    (ret.op = "calculate_final_payment_date" /\ ret.frequency \in Frequencies) =>
        LET n == ret.duration_value
            was == Ymd(ret.start_date)
            idx == was.year * 12 + (was.month - 1) + n
            last == DaysInMonth(idx \div 12, (idx % 12) + 1)
        IN  /\ ~ret.result.raised
            /\ ret.frequency = "daily" => ret.result.value = ret.start_date + n
            /\ ret.frequency = "weekly" => ret.result.value = ret.start_date + 7 * n
            /\ ret.frequency = "biweekly" => ret.result.value = ret.start_date + 14 * n
            /\ ret.frequency = "monthly" =>
                  ret.result.value =
                      MkDate(idx \div 12, (idx % 12) + 1,
                             IF was.day <= last THEN was.day ELSE last)
\* 31 January 2023 plus one month is 28 February 2023; plus thirteen months
\* is 29 February 2024; 15 December plus twelve months keeps the day
C17_Witness ==
    /\ ret.op = "calculate_final_payment_date" /\ ret.frequency = "monthly"
    /\ \/ /\ ret.start_date = MkDate(2023, 1, 31) /\ ret.duration_value = 1
          /\ ret.result.value = MkDate(2023, 2, 28)
       \/ /\ ret.start_date = MkDate(2023, 1, 31) /\ ret.duration_value = 13
          /\ ret.result.value = MkDate(2024, 2, 29)
       \/ /\ ret.start_date = MkDate(2023, 12, 15) /\ ret.duration_value = 12
          /\ ret.result.value = MkDate(2024, 12, 15)

\* C20: generate_repayment_schedule(principal, frequency, n, start_date)
\* returns exactly n entries numbered 1..n in order, the first due on
\* first_payment_date and each later one due on calculate_next_payment_date
\* of the one before, every installment_amount that of calculate_loan, every
\* status 'pending', and balance_after_payment of entry i =
\* max(0, total_repayment - i x installment_amount), so that the balance
\* never rises and is never negative.
C20_Schedule ==
    (ret.op = "generate_repayment_schedule") =>
        LET n == ret.duration_value
            f == ret.frequency
            schedule == ret.result.value
            details == calculate_loan(ret.principal_amount, f, n, ret.start_date)
        IN  /\ ~ret.result.raised
            /\ Len(schedule) = n
            /\ schedule[1].due_date =
                   calculate_next_payment_date(ret.start_date, f).value
            /\ \A i \in 1..n :
                  /\ schedule[i].installment_number = i
                  /\ schedule[i].installment_amount = details.installment_amount
                  /\ schedule[i].status = "pending"
                  /\ schedule[i].balance_after_payment =
                         RatMax0(RatSub(details.total_repayment,
                                        RatMul(Rat(i, 1), details.installment_amount)))
                  /\ schedule[i].balance_after_payment.num >= 0
            /\ \A i \in 2..n :
                  /\ schedule[i].due_date =
                         calculate_next_payment_date(schedule[i - 1].due_date, f).value
                  /\ RatSub(schedule[i - 1].balance_after_payment,
                            schedule[i].balance_after_payment).num >= 0

\* C29: the schedule and the summary agree on the end date: for every
\* frequency, start date and duration_value n >= 1,
\* generate_repayment_schedule returns a schedule whose last entry is due on
\* the final_payment_date of calculate_loan for the same arguments.
C29_ScheduleEndsOnFinalDate ==
    (ret.op = "generate_repayment_schedule") =>
        /\ ~ret.result.raised
        /\ ret.result.value[Len(ret.result.value)].due_date =
               calculate_loan(ret.principal_amount, ret.frequency,
                              ret.duration_value, ret.start_date).final_payment_date

(***************************************************************************)
(* Claims about creation from unvalidated values (SpecCreate).             *)
(***************************************************************************)
\* C15: calculate_loan with principal <= 0, duration_value <= 0 or a
\* frequency outside the four known ones raises and returns nothing, not
\* even a partial result; when the creation of a Loan runs into this, no
\* row is stored.
C15_InvalidRaises ==
    /\ (/\ ret.op = "calculate_loan"
        /\ \/ ret.principal_amount <= 0
           \/ ret.duration_value <= 0
           \/ ret.frequency \notin {"daily", "weekly", "biweekly", "monthly"})
       => ret.result = [raised |-> TRUE]
    /\ (/\ ret.op = "create"
        /\ \/ ret.principal_amount <= 0
           \/ ret.duration_value <= 0
           \/ ret.frequency \notin {"daily", "weekly", "biweekly", "monthly"})
       => (ret.result.raised /\ loans = <<>>)
\* a creation with a principal of zero, and one with an unknown frequency
C15_Witness ==
    /\ ret.op = "create" /\ ret.result.raised /\ loans = <<>>
    /\ \/ ret.principal_amount = 0 /\ ret.frequency = "daily" /\ ret.duration_value = 1
       \/ ret.principal_amount > 0 /\ ret.frequency = "yearly" /\ ret.duration_value = 1

(***************************************************************************)
(* Claims about applications served at the same time (SpecApply).          *)
(***************************************************************************)
\* C18: loan_number is unique among the stored loans and never changes
\* after creation: whatever applications are made, two at the same time
\* included, the stored loans have pairwise distinct numbers, and no
\* approve, reject, disburse or record_repayment changes a loan's number.
C18_LoanNumber ==
    [][/\ \A i \in DOMAIN loans :
              i \in DOMAIN loans' /\ loans'[i].loan_number = loans[i].loan_number
       /\ \A i, j \in DOMAIN loans' :
              i # j => loans'[i].loan_number # loans'[j].loan_number]_vars
\* an application numbered at the same time as another one is refused by
\* the database after the loan of row 1 went on in its lifecycle, and two
\* loans are stored
C18_Witness ==
    /\ Len(loans) = 2
    /\ loans[1].status \in {"approved", "active", "completed"}
    /\ ret.op = "apply" /\ ret.raised
    /\ \E i \in DOMAIN loans : loans[i].loan_number = ret.obj.loan_number

(***************************************************************************)
(* Claims about concurrent requests on one loan (SpecViews).               *)
(***************************************************************************)

\* C6: concurrent repayments through LoanRepaymentView.post on one loan never
\* lose or double-count a payment: when two requests both report success,
\* the stored amount_paid is the sum of the amounts accepted, the stored
\* outstanding_balance has dropped by the same sum, and that sum never
\* exceeds what was outstanding.
C6_NoLostRepayment ==
    (\A w \in Workers :
        reqs[w].kind = "repayment" /\ reqs[w].pc = "done" /\ reqs[w].ok)
    => /\ loans[1].amount_paid = paidSum
       /\ paidSum <= loans[1].total_repayment
       /\ loans[1].outstanding_balance =
              IF loans[1].status = "completed" THEN 0
              ELSE loans[1].total_repayment - paidSum

\* C7: approve, reject, disburse and record_repayment on one loan run under
\* a per-loan mutual exclusion: of an approve and a reject request in flight
\* together on a pending loan at most one reports success, and a request
\* never changes a status other than the one it loaded.
C7_MutualExclusion ==
    [][/\ ~(\E v, w \in Workers :
              /\ reqs'[v].kind = "approve" /\ reqs'[v].pc = "done" /\ reqs'[v].ok
              /\ reqs'[w].kind = "reject" /\ reqs'[w].pc = "done" /\ reqs'[w].ok)
       /\ (loans # <<>> /\ loans'[1].status # loans[1].status) =>
              \E w \in Workers :
                  /\ reqs'[w] # reqs[w]
                  /\ reqs[w].seen.status = loans[1].status]_vars

\* C28: the ledger matches the loan: once the repayment and disbursement
\* requests started on a loan, one after another or together, have all been
\* handled, the amounts of its completed loan_repayment Transactions sum to
\* the stored amount_paid, and the loan has exactly one loan_disbursement
\* Transaction, of amount principal_amount, exactly when it has been
\* disbursed.
C28_LedgerMatchesLoan ==
    (loans # <<>> /\ \A w \in Workers : reqs[w].pc \in {"idle", "done"}) =>
        LET paid[i \in 0..Len(ledger)] ==
                IF i = 0 THEN 0
                ELSE paid[i - 1] +
                     (IF ledger[i].transaction_type = "loan_repayment"
                      THEN ledger[i].amount ELSE 0)
            disbursements == {i \in DOMAIN ledger :
                                ledger[i].transaction_type = "loan_disbursement"}
        IN  /\ paid[Len(ledger)] = loans[1].amount_paid
            /\ \A i \in disbursements : ledger[i].amount = loans[1].principal_amount
            /\ Cardinality(disbursements) =
                   IF loans[1].status \in {"active", "overdue", "completed"}
                   THEN 1 ELSE 0

====
